---- MODULE Spec2Model ----
(***************************************************************************)
(* MemoryOS: the ingestion-and-retrieval pipeline.                         *)
(*                                                                         *)
(*   src/src/chunking/service.py    ChunkingService.chunk_text             *)
(*   src/src/storage/qdrant_service.py  QdrantService (collection          *)
(*                                  "memories")                            *)
(*   src/src/api/cache.py           CacheService (Redis)                   *)
(*   src/src/api/main.py            upload_document / search /             *)
(*                                  delete_document                        *)
(*   src/api.py                     the stand-alone app: upload_document / *)
(*                                  search on collection "documents"       *)
(*                                                                         *)
(* A text is a sequence of one-character strings.  Qdrant, Redis and the   *)
(* embedding model are external services; they are modelled at the         *)
(* interface the code calls, and each call may fail.                       *)
(***************************************************************************)
EXTENDS Integers, Sequences, FiniteSets, TLC

VARIABLES
    chunk_size,   \* ChunkingService.chunk_size
    overlap,      \* ChunkingService.overlap
    ctext,        \* the text handed to chunk_text (SpecChunk)
    cout,         \* what chunk_text returned for it, or raised (SpecChunk)
    index,        \* the Qdrant collection: point id -> [vector, payload]
    cache,        \* Redis: key -> [value, exp]
    now,          \* the clock, in seconds
    next_uuid,    \* the next value uuid.uuid4() hands out
    resp,         \* the response of the last request served
    deleted,      \* history: the document ids whose delete has completed
    ingested,     \* history: the completion time of each successful upsert
    srch,         \* the frame of the search in flight (SpecTTL)
    startup,      \* Qdrant's collections and each starting caller (SpecStartup)
    ups           \* the uploads in flight, one per worker (SpecUploads)

chunkVars == <<chunk_size, overlap, ctext, cout>>
vars == <<chunk_size, overlap, ctext, cout, index, cache, now, next_uuid,
          resp, deleted, ingested, srch, startup, ups>>

-----------------------------------------------------------------------------
(* Bounds *)

MaxTextLen == 5
MaxChunkSize == 3
MaxOverlap == 2
MaxTicks == 1        \* clock ticks of one TTL per run (Spec)
MaxTopK == 2
MaxUuid == 3         \* uploads start while fewer uuids than this were drawn
MaxTtlTicks == 4     \* clock ticks of a third of the TTL per run (SpecTTL)
MaxPointId == 2      \* point ids of the direct adapter calls (SpecAdapter)
MaxCallers == 3      \* processes starting up against one Qdrant (SpecStartup)
MaxWorkers == 2      \* workers serving one upload each at a time (SpecUploads)

\* src/api.py: chunk_size = 1000; r.payload["text"][:200] + "..."
ApiChunkSize == 1000
ApiPreviewLen == 200

\* get_chunking_service() builds ChunkingService() with chunk_size = 1000
\* and overlap = 200; the service of Spec is built with sizes scaled down to
\* the documents uploaded here, so that a document can overflow a chunk
ServiceChunkSize == MaxChunkSize - 2
ServiceOverlap == MaxOverlap - 1

\* cache_service.set(cache_key, results, ttl=3600)
TTL == 3600
TickLen == TTL \div 3

-----------------------------------------------------------------------------
(* Texts *)

NL == "\n"
SP == " "
Alphabet == {"a", "b", SP, NL}
Whitespace == {SP, NL}

TextsOfLen(n) == [1..n -> Alphabet]
Texts == UNION {TextsOfLen(n) : n \in 0..MaxTextLen}
\* three one-character paragraphs separated by blank lines
ScenarioText == <<"A", NL, NL, "B", NL, NL, "C">>

\* str.strip(): drop leading and trailing whitespace
RECURSIVE LStrip(_)
LStrip(s) ==
    IF s # <<>> /\ Head(s) \in Whitespace THEN LStrip(Tail(s)) ELSE s

RECURSIVE RStrip(_)
RStrip(s) ==
    IF s # <<>> /\ s[Len(s)] \in Whitespace
    THEN RStrip(SubSeq(s, 1, Len(s) - 1))
    ELSE s

Strip(s) == RStrip(LStrip(s))

\* text.split('\n\n'): cut at each non-overlapping occurrence, left to right
RECURSIVE Split(_)
Split(s) ==
    LET hits == {i \in 1..(Len(s) - 1) : s[i] = NL /\ s[i + 1] = NL}
    IN  IF hits = {} THEN <<s>>
        ELSE LET i == CHOOSE j \in hits : \A k \in hits : j <= k
             IN  <<SubSeq(s, 1, i - 1)>> \o Split(SubSeq(s, i + 2, Len(s)))

\* s[:n] of Python: the first n characters
PosSlice(s, n) == SubSeq(s, 1, IF n < Len(s) THEN n ELSE Len(s))

\* s[-n:] of Python: the last n characters, and the whole of s for n = 0
\* (-0 is 0, so the slice starts at the beginning)
NegSlice(s, n) ==
    IF n = 0 \/ n >= Len(s) THEN s ELSE SubSeq(s, Len(s) - n + 1, Len(s))

-----------------------------------------------------------------------------
(* ChunkingService.chunk_text *)

\* Chunk(id=..., text=current_chunk.strip(), start_char, end_char); the
\* untrimmed buffer is kept beside it as "raw" (not a field of Chunk)
MkChunk(current_chunk, start_char) ==
    [text       |-> Strip(current_chunk),
     start_char |-> start_char,
     end_char   |-> start_char + Len(current_chunk),
     raw        |-> current_chunk]

\* one iteration of "for para in paragraphs"
ChunkStep(st, para, cs, ov) ==
    IF Len(st.current_chunk) + Len(para) > cs
    THEN IF st.current_chunk # <<>>
         THEN LET overlap_text ==
                      IF Len(st.current_chunk) > ov
                      THEN NegSlice(st.current_chunk, ov)
                      ELSE st.current_chunk
              IN  [chunks        |-> Append(st.chunks,
                                            MkChunk(st.current_chunk, st.start_char)),
                   start_char    |-> st.start_char + Len(st.current_chunk)
                                         - Len(overlap_text),
                   current_chunk |-> overlap_text \o <<NL, NL>> \o para]
         ELSE [st EXCEPT !.current_chunk = para]
    ELSE [st EXCEPT !.current_chunk =
              IF st.current_chunk # <<>>
              THEN st.current_chunk \o <<NL, NL>> \o para
              ELSE para]

RECURSIVE ChunkLoop(_, _, _, _)
ChunkLoop(st, paragraphs, cs, ov) ==
    IF paragraphs = <<>> THEN st
    ELSE ChunkLoop(ChunkStep(st, Head(paragraphs), cs, ov), Tail(paragraphs), cs, ov)

\* chunk_text(text) of a service built with (chunk_size = cs, overlap = ov)
chunk_text(text, cs, ov) ==
    LET st == ChunkLoop([chunks |-> <<>>, current_chunk |-> <<>>, start_char |-> 0],
                        Split(text), cs, ov)
    IN  IF st.current_chunk # <<>>
        THEN Append(st.chunks, MkChunk(st.current_chunk, st.start_char))
        ELSE st.chunks

-----------------------------------------------------------------------------
(* The embedding model (external): a text goes to a vector.  The vector    *)
(* counts the letters of the text, and the score of two vectors is their   *)
(* dot product: a deterministic stand-in for model.encode and for cosine   *)
(* similarity that ranks points by their content.                          *)

Count(text, c) == Cardinality({i \in 1..Len(text) : text[i] = c})

embed_text(text) == [c \in {"a", "b"} |-> Count(text, c)]

embed_batch(texts) == [i \in 1..Len(texts) |-> embed_text(texts[i])]

Score(v, w) == v["a"] * w["a"] + v["b"] * w["b"]

-----------------------------------------------------------------------------
(* Python values *)

\* Optional[...]: None or a value
None == [found |-> FALSE, value |-> <<>>]
Some(v) == [found |-> TRUE, value |-> v]

\* "if x:" for x an Optional list: None and the empty list are falsy
Truthy(opt) == opt.found /\ opt.value # <<>>

\* a dict as its items in insertion order: <<key, value>> pairs
DictKeys(d) == {d[i][1] : i \in 1..Len(d)}
DictGet(d, k) == d[CHOOSE i \in 1..Len(d) : d[i][1] = k][2]
DictItems(d) == {d[i] : i \in 1..Len(d)}

-----------------------------------------------------------------------------
(* QdrantService *)

NoPoints == [id \in {} |-> 0]

\* upsert_chunks: the points it builds; a chunk without embedding is skipped
ChunkPoints(chunks, document_id) ==
    LET kept == {i \in 1..Len(chunks) : chunks[i].embedding.found}
    IN  [id \in {chunks[i].id : i \in kept} |->
            LET c == chunks[CHOOSE i \in kept :
                               /\ chunks[i].id = id
                               /\ \A j \in kept : chunks[j].id = id => j <= i]
            IN  [vector  |-> c.embedding.value,
                 payload |-> [text        |-> c.text,
                              document_id |-> document_id,
                              metadata    |-> c.metadata,
                              start_char  |-> c.start_char,
                              end_char    |-> c.end_char]]]

\* client.upsert(points): insert or overwrite by point id
ClientInsert(idx, points) ==
    LET top == IF DOMAIN idx = {} THEN 0
               ELSE CHOOSE m \in DOMAIN idx : \A i \in DOMAIN idx : i <= m
    IN  [id \in DOMAIN idx \cup {top + i : i \in DOMAIN points} |->
            IF id \in DOMAIN idx THEN idx[id] ELSE points[id - top]]

ClientUpsert(idx, points) ==
    [id \in DOMAIN idx \cup DOMAIN points |->
        IF id \in DOMAIN points THEN points[id] ELSE idx[id]]

\* upsert_chunks(chunks, document_id): one client.upsert when there are points
upsert_chunks_first_only(idx, chunks, document_id) ==
    LET points == ChunkPoints(SubSeq(chunks, 1, IF Len(chunks) > 0 THEN 1 ELSE 0),
                              document_id)
    IN  IF DOMAIN points # {} THEN ClientUpsert(idx, points) ELSE idx

upsert_chunks(idx, chunks, document_id) ==
    LET points == ChunkPoints(chunks, document_id)
    IN  IF DOMAIN points # {} THEN ClientUpsert(idx, points) ELSE idx

\* Filter(must=[FieldCondition(key="metadata.<k>", match=MatchValue(v))...])
MatchesFilter(payload, filters) ==
    \A k \in DictKeys(filters) :
        /\ k \in DictKeys(payload.metadata)
        /\ DictGet(payload.metadata, k) = DictGet(filters, k)

\* client.search: the limit best points by score; equal scores in id order
RECURSIVE Ranked(_, _, _, _)
Ranked(idx, ids, query_vector, limit) ==
    IF ids = {} \/ limit = 0 THEN <<>>
    ELSE LET best == CHOOSE i \in ids : \A j \in ids :
                        \/ Score(query_vector, idx[i].vector)
                              > Score(query_vector, idx[j].vector)
                        \/ /\ Score(query_vector, idx[i].vector)
                                 = Score(query_vector, idx[j].vector)
                           /\ i <= j
         IN  <<best>> \o Ranked(idx, ids \ {best}, query_vector, limit - 1)

\* the SearchResult built from a scored point
ToSearchResult(idx, id, query_vector) ==
    [chunk       |-> [id         |-> id,
                      text       |-> idx[id].payload.text,
                      metadata   |-> idx[id].payload.metadata,
                      start_char |-> idx[id].payload.start_char,
                      end_char   |-> idx[id].payload.end_char],
     score       |-> Score(query_vector, idx[id].vector),
     document_id |-> idx[id].payload.document_id]

\* search(query_vector, top_k, filters); filters is an Optional dict
qdrant_search(idx, query_vector, top_k, filters) ==
    LET ids == IF filters.found /\ filters.value # <<>>
               THEN {id \in DOMAIN idx : MatchesFilter(idx[id].payload, filters.value)}
               ELSE DOMAIN idx
        hits == Ranked(idx, ids, query_vector, top_k)
    IN  [i \in 1..Len(hits) |-> ToSearchResult(idx, hits[i], query_vector)]

\* a delete that drops every point of the collection
qdrant_delete_every_point(idx, document_id) == NoPoints

\* delete_document(document_id): delete the points whose payload
\* document_id matches
qdrant_delete_document(idx, document_id) ==
    [id \in {i \in DOMAIN idx : idx[i].payload.document_id # document_id} |-> idx[id]]

-----------------------------------------------------------------------------
(* CacheService *)

NoEntries == [k \in {} |-> 0]

\* str(x) of a pydantic object: a string that shows its fields
Repr(x) == [repr |-> x]

\* json.dumps(value, default=str) of a list of SearchResult: a SearchResult
\* is no JSON type, so default turns each one into str(result) and the
\* document is a list of strings
JsonDumpsDefaultStr(value) == [json |-> [i \in 1..Len(value) |-> Repr(value[i])]]

\* json.dumps(value) of a list of dicts of strings and numbers
JsonDumps(value) == [json |-> value]

\* json.loads(doc)
JsonLoads(doc) == doc.json

\* an entry set with a time to live is gone once that time is over
NeverExpires(entry, t) == TRUE

Alive(entry, t) == t < entry.exp

\* redis.get(key): the value, unless absent or expired
RedisGet(c, key, t) ==
    IF key \in DOMAIN c /\ Alive(c[key], t) THEN Some(c[key].value) ELSE None

\* redis.setex(key, ttl, value); "from" is history: the number of upserts
\* the index had seen when the value was computed
RedisSetex(c, key, ttl, value, t, from) ==
    [k \in DOMAIN c \cup {key} |->
        IF k = key THEN [value |-> value, exp |-> t + ttl, from |-> from] ELSE c[k]]

\* CacheService.get: "if value: return json.loads(value)"; an exception is
\* logged and None returned
cache_get(c, key, t, fails) ==
    IF fails THEN None
    ELSE LET value == RedisGet(c, key, t)
         IN  IF value.found THEN Some(JsonLoads(value.value)) ELSE None

\* CacheService.set: an exception is logged and swallowed
cache_set(c, key, value, ttl, t, from, fails) ==
    IF fails THEN c ELSE RedisSetex(c, key, ttl, JsonDumpsDefaultStr(value), t, from)

-----------------------------------------------------------------------------
(* Requests *)

Queries == {<<"a">>}
TopKs == {MaxTopK}
Filenames == {"a.txt", "b.md", "c.pdf"}
DocTexts == {<<>>, <<SP>>, <<"a", NL, NL, "b">>}

\* os.path.splitext(file.filename)[1].lower() through file_type_map
FileType(filename) ==
    CASE filename = "a.txt" -> "text"
      [] filename = "b.md"  -> "markdown"
      [] filename = "c.pdf" -> "pdf"

\* SearchRequest.filters: None, or a dict over the metadata keys and
\* document_id
FilterDicts(ids) ==
    {<<<<"filename", "a.txt">>, <<"file_type", "text">>>>,
     <<<<"file_type", "text">>, <<"filename", "a.txt">>>>}
    \cup {<<<<"document_id", d>>>> : d \in ids}
Filters(ids) == {None} \cup {Some(d) : d \in FilterDicts(ids)}

\* the calls that fail while a request is served: none, one of them, or
\* both cache calls (Redis unreachable)
FaultSets == {{}, {"cache_get"}, {"cache_set"}, {"cache_get", "cache_set"},
              {"embed"}, {"index"}}

\* the document ids that uploads have handed out and that are on record
KnownDocs == deleted \cup {index[i].payload.document_id : i \in DOMAIN index}

NoResponse == [op |-> "none"]
NoSearch == [pc |-> "idle"]

\* the workers that serve uploads side by side; none has one in hand
Workers == 1..MaxWorkers
NoUploads == [w \in Workers |-> [pc |-> "idle"]]

\* QdrantService(collection_name="memories"); src/api.py uses "documents"
CollectionNames == {"memories", "documents"}
Callers == 1..MaxCallers
\* a fresh Qdrant, and no process has started
NoStartup == [collections |-> {},
              created     |-> [n \in CollectionNames |-> 0],
              callers     |-> [c \in Callers |-> [pc |-> "idle"]]]

-----------------------------------------------------------------------------
(* src/api/main.py *)

\* f"search:{request.query}:{request.top_k}"
CacheKey(request) == <<"search", request.query, request.top_k>>

\* chunks identified by their position in the document
UploadChunksNumbered(text, metadata, cs, ov, first_uuid) ==
    LET cut == chunk_text(text, cs, ov)
    IN  [i \in 1..Len(cut) |->
            [id         |-> i,
             text       |-> cut[i].text,
             metadata   |-> metadata,
             embedding  |-> None,
             start_char |-> cut[i].start_char,
             end_char   |-> cut[i].end_char]]

\* chunking_service.chunk_text(text_content, metadata): each chunk gets
\* id = str(uuid.uuid4()), the metadata, and no embedding
UploadChunks(text, metadata, cs, ov, first_uuid) ==
    LET cut == chunk_text(text, cs, ov)
    IN  [i \in 1..Len(cut) |->
            [id         |-> first_uuid + i - 1,
             text       |-> cut[i].text,
             metadata   |-> metadata,
             embedding  |-> None,
             start_char |-> cut[i].start_char,
             end_char   |-> cut[i].end_char]]

\* "for chunk, embedding in zip(chunks, embeddings): chunk.embedding = embedding"
AssignEmbeddings(chunks, embeddings) ==
    [i \in 1..Len(chunks) |->
        IF i <= Len(embeddings)
        THEN [chunks[i] EXCEPT !.embedding = Some(embeddings[i])]
        ELSE chunks[i]]

ChunkTexts(chunks) == [i \in 1..Len(chunks) |-> chunks[i].text]

\* what upload_document never touches: the chunker's configuration, the
\* cache, the clock
UploadFrameCacheCleared ==
    /\ cache' = NoEntries
    /\ UNCHANGED <<chunk_size, overlap, ctext, cout, now, deleted, srch, startup, ups>>

UploadFrame ==
    UNCHANGED <<chunk_size, overlap, ctext, cout, cache, now, deleted, srch, startup, ups>>

\* POST /documents/upload
upload_document(filename, text, faults) ==
    LET doc_id   == next_uuid
        metadata == <<<<"filename", filename>>,
                      <<"file_type", FileType(filename)>>,
                      <<"upload_date", ToString(now)>>>>
        chunks   == UploadChunks(text, metadata, chunk_size, overlap, next_uuid + 1)
        embedded == AssignEmbeddings(chunks, embed_batch(ChunkTexts(chunks)))
        points   == ChunkPoints(embedded, doc_id)
    IN  /\ next_uuid <= MaxUuid
        /\ UploadFrame
        /\ IF FileType(filename) = "pdf"
           THEN /\ next_uuid' = next_uuid + 1
                /\ resp' = [op |-> "upload", status |-> "error", stage |-> "extract",
                            document_id |-> doc_id, sent |-> <<>>, upserts |-> 0]
                /\ UNCHANGED <<index, ingested>>
           ELSE /\ next_uuid' = next_uuid + 1 + Len(chunks)
                /\ IF "embed" \in faults
                   THEN /\ resp' = [op |-> "upload", status |-> "error",
                                    stage |-> "embed", document_id |-> doc_id,
                                    sent |-> <<ChunkTexts(chunks)>>, upserts |-> 0]
                        /\ UNCHANGED <<index, ingested>>
                   ELSE IF DOMAIN points # {} /\ "index" \in faults
                   THEN /\ resp' = [op |-> "upload", status |-> "error",
                                    stage |-> "upsert", document_id |-> doc_id,
                                    sent |-> <<ChunkTexts(chunks)>>, upserts |-> 0]
                        /\ UNCHANGED <<index, ingested>>
                   ELSE /\ index' = upsert_chunks(index, embedded, doc_id)
                        /\ ingested' = IF DOMAIN points # {}
                                       THEN Append(ingested, now) ELSE ingested
                        /\ resp' = [op |-> "upload", status |-> "ok", stage |-> "done",
                                    document_id |-> doc_id,
                                    chunks_created |-> Len(chunks),
                                    sent |-> <<ChunkTexts(chunks)>>,
                                    upserts |-> IF DOMAIN points # {} THEN 1 ELSE 0]

\* history: whether this search repeats the request just served, that one
\* having missed the cache and succeeded with the cache reachable and its
\* entry still alive; and what that one returned
Repeats(request, faults) ==
    IF /\ resp.op = "search"
       /\ resp.status = "ok"
       /\ ~resp.hit
       /\ resp.cache_errors = {}
       /\ resp.request = request
       /\ now < resp.at + TTL
       /\ faults \cap {"cache_get", "cache_set"} = {}
    THEN Some(resp.body)
    ELSE None

\* "except Exception as e: raise HTTPException(status_code=500, ...)":
\* the call that raised is failed; the caller gets an error and no results
SearchExceptionSwallowed(base, failed, faults) ==
    [status |-> "ok", body |-> <<>>, hit |-> FALSE,
     embed_calls |-> 1, index_calls |-> IF failed = "index" THEN 1 ELSE 0,
     cache_errors |-> faults \cap {"cache_get"}, failed |-> failed] @@ base

OnSearchException(base, failed, faults) ==
    [status |-> "error", body |-> <<>>, hit |-> FALSE,
     embed_calls |-> 1, index_calls |-> IF failed = "index" THEN 1 ELSE 0,
     cache_errors |-> faults \cap {"cache_get"}, failed |-> failed] @@ base

\* POST /search, served in one piece
search(request, faults) ==
    LET cache_key     == CacheKey(request)
        cached_result == cache_get(cache, cache_key, now, "cache_get" \in faults)
        results       == qdrant_search(index, embed_text(request.query),
                                       request.top_k, request.filters)
        base == [op |-> "search", request |-> request, cache_key |-> cache_key,
                 at |-> now, repeats |-> Repeats(request, faults)]
    IN  /\ UNCHANGED <<chunk_size, overlap, ctext, cout, index, now, next_uuid,
                       deleted, ingested, srch, startup, ups>>
        /\ IF Truthy(cached_result)
           THEN /\ resp' = [status |-> "ok", body |-> cached_result.value, hit |-> TRUE,
                            embed_calls |-> 0, index_calls |-> 0,
                            cache_errors |-> {}, failed |-> "none"] @@ base
                /\ UNCHANGED cache
           ELSE IF "embed" \in faults
           THEN /\ resp' = OnSearchException(base, "embed", faults)
                /\ UNCHANGED cache
           ELSE IF "index" \in faults
           THEN /\ resp' = OnSearchException(base, "index", faults)
                /\ UNCHANGED cache
           ELSE /\ cache' = cache_set(cache, cache_key, results, TTL, now,
                                      Len(ingested), "cache_set" \in faults)
                /\ resp' = [status |-> "ok", body |-> results, hit |-> FALSE,
                            embed_calls |-> 1, index_calls |-> 1,
                            cache_errors |-> faults \cap {"cache_get", "cache_set"},
                            failed |-> "none"] @@ base

\* DELETE /documents/{document_id}
delete_document(document_id, faults) ==
    /\ UNCHANGED <<chunk_size, overlap, ctext, cout, cache, now, next_uuid,
                   ingested, srch, startup, ups>>
    /\ IF "index" \in faults
       THEN /\ resp' = [op |-> "delete", status |-> "error", document_id |-> document_id]
            /\ UNCHANGED <<index, deleted>>
       ELSE /\ index' = qdrant_delete_document(index, document_id)
            /\ deleted' = deleted \cup {document_id}
            /\ resp' = [op |-> "delete", status |-> "ok", document_id |-> document_id]

\* d seconds pass; Redis drops the entries whose time to live is over
Pass(d) ==
    /\ now' = now + d
    /\ cache' = [k \in {j \in DOMAIN cache : Alive(cache[j], now')} |-> cache[k]]
    /\ UNCHANGED <<chunk_size, overlap, ctext, cout, index, next_uuid, resp,
                   deleted, ingested, srch, startup, ups>>

Requests == [query : Queries, top_k : TopKs, filters : Filters(KnownDocs)]

Upload == \E f \in Filenames, t \in DocTexts, faults \in {{}, {"embed"}, {"index"}} :
              upload_document(f, t, faults)
Search == \E r \in Requests, faults \in FaultSets : search(r, faults)
Delete == \E d \in KnownDocs, faults \in {{}, {"index"}} :
              delete_document(d, faults)
Tick == now < MaxTicks * TTL /\ Pass(TTL)

Init ==
    /\ chunk_size = ServiceChunkSize
    /\ overlap = ServiceOverlap
    /\ ctext = <<>>
    /\ cout = [called |-> FALSE, chunks |-> <<>>, error |-> "none"]
    /\ index = NoPoints
    /\ cache = NoEntries
    /\ now = 0
    /\ next_uuid = 1
    /\ resp = NoResponse
    /\ deleted = {}
    /\ ingested = <<>>
    /\ srch = NoSearch
    /\ startup = NoStartup
    /\ ups = NoUploads

Next == Upload \/ Search \/ Delete \/ Tick

Spec == Init /\ [][Next]_vars


-----------------------------------------------------------------------------
(* Claims about the service of src/api/main.py (Spec) *)

HasFilter(request) == request.filters.found /\ request.filters.value # <<>>

\* C1: a search that repeats, with nothing in between, a search that missed
\* the cache and succeeded returns the same result sequence and calls
\* neither the embedding model nor the vector index.
C1_RepeatServedFromCache ==
    (resp.op = "search" /\ resp.repeats.found) =>
        /\ resp.status = "ok"
        /\ resp.body = resp.repeats.value
        /\ resp.embed_calls = 0
        /\ resp.index_calls = 0

\* C2: the cache key of a search is "search", the query text and top_k,
\* followed by the canonical (key-sorted, so order-free) filter whenever a
\* filter is present.
C2_KeyCoversFilter ==
    resp.op = "search" =>
        resp.cache_key =
            IF HasFilter(resp.request)
            THEN <<"search", resp.request.query, resp.request.top_k,
                   DictItems(resp.request.filters.value)>>
            ELSE <<"search", resp.request.query, resp.request.top_k>>

\* C4: once delete(document_id) has completed, a search filtered by that
\* document id returns the empty sequence.
C4_NoResultsAfterDelete ==
    (/\ resp.op = "search"
     /\ resp.status = "ok"
     /\ HasFilter(resp.request)
     /\ "document_id" \in DictKeys(resp.request.filters.value)
     /\ DictGet(resp.request.filters.value, "document_id") \in deleted)
        => resp.body = <<>>

\* the step serves an upload
UploadStep == resp'.op = "upload" /\ next_uuid' # next_uuid

\* C6: an upload leaves every cache entry as it was: same keys, same values,
\* same expiry times.
C6_UploadKeepsCache == [][UploadStep => cache' = cache]_vars

\* C6 witness: an upload was served while the cache held an entry
C6_Witness ==
    resp.op = "upload" /\ resp.status = "ok" /\ resp.upserts = 1 /\ DOMAIN cache # {}

\* C8: when the embedding call or the index query of a search raises, the
\* search reports an error; it does not answer with a result sequence.
C8_FailurePropagates ==
    (resp.op = "search" /\ resp.failed \in {"embed", "index"}) =>
        resp.status = "error"

\* C8 witness: a search whose index query raised
C8_Witness == resp.op = "search" /\ resp.failed = "index" /\ DOMAIN index # {}

\* C9: an upload that fails before its upsert leaves the index as it was,
\* and an upload adds either a point for every segment it embedded, in one
\* upsert, or no point; it changes no point that was there.
C9_UploadAllOrNothing ==
    [][UploadStep =>
         LET new == DOMAIN index' \ DOMAIN index
         IN  /\ resp'.stage \in {"extract", "embed"} => index' = index
             /\ DOMAIN index \subseteq DOMAIN index'
             /\ \A id \in DOMAIN index : index'[id] = index[id]
             /\ \/ new = {}
                \/ /\ resp'.status = "ok"
                   /\ resp'.upserts = 1
                   /\ Cardinality(new) = Len(resp'.sent[1])
                   /\ \A i \in 1..Len(resp'.sent[1]) :
                         \E id \in new : index'[id].payload.text = resp'.sent[1][i]]_vars

\* C9 witness: the batch embedding of a two-segment upload failed while the
\* index held points
C9_Witness ==
    /\ resp.op = "upload"
    /\ resp.stage = "embed"
    /\ Len(resp.sent[1]) = 2
    /\ DOMAIN index # {}

\* C10: no text that is empty after trimming is sent to the embedding model
\* or stored in the index.
C10_NoEmptySegments ==
    /\ resp.op = "upload" =>
          \A b \in 1..Len(resp.sent) : \A i \in 1..Len(resp.sent[b]) :
              Strip(resp.sent[b][i]) # <<>>
    /\ \A id \in DOMAIN index : Strip(index[id].payload.text) # <<>>

\* a returned result, read back from its string form when it came out of
\* the cache
ResultOf(r) == IF "repr" \in DOMAIN r THEN r.repr ELSE r

\* C19: every result of a search with a non-empty filter is a point whose
\* metadata (or document id, for that key) equals the filter's value for
\* every key of the filter, whatever was searched before.
C19_ResultsMatchFilter ==
    (resp.op = "search" /\ resp.status = "ok" /\ HasFilter(resp.request)) =>
        \A i \in 1..Len(resp.body) :
            LET r == ResultOf(resp.body[i])
                f == resp.request.filters.value
            IN  \A k \in DictKeys(f) :
                    \/ /\ k \in DictKeys(r.chunk.metadata)
                       /\ DictGet(r.chunk.metadata, k) = DictGet(f, k)
                    \/ /\ k = "document_id"
                       /\ r.document_id = DictGet(f, k)

\* C20: the result sequence a search wrote to the cache reads back, before
\* expiry, as a value equal to the written sequence.
C20_CacheRoundTrip ==
    (/\ resp.op = "search"
     /\ resp.status = "ok"
     /\ ~resp.hit
     /\ resp.cache_errors = {}
     /\ now < resp.at + TTL)
        => cache_get(cache, resp.cache_key, now, FALSE) = Some(resp.body)

-----------------------------------------------------------------------------
(* SpecTTL: POST /search served step by step, one search in flight, with   *)
(* uploads and the clock running between its calls to Redis and Qdrant.    *)
(* The steps are the handler's calls to the shared services:               *)
(* cache_service.get, qdrant_service.search, cache_service.set.            *)

TtlFrame == UNCHANGED <<chunk_size, overlap, ctext, cout, now, next_uuid,
                        deleted, ingested, index, startup, ups>>

\* cache_service.get and, on a miss, embedding_service.embed_text
SearchBegin(request) ==
    LET cache_key     == CacheKey(request)
        cached_result == cache_get(cache, cache_key, now, FALSE)
    IN  /\ srch.pc = "idle"
        /\ TtlFrame
        /\ UNCHANGED cache
        /\ IF Truthy(cached_result)
           THEN /\ resp' = [op |-> "search", status |-> "ok", hit |-> TRUE,
                            body |-> cached_result.value, issued |-> now,
                            from |-> cache[cache_key].from,
                            cached_at |-> cache[cache_key].exp - TTL]
                /\ UNCHANGED srch
           ELSE /\ srch' = [pc |-> "query", request |-> request, issued |-> now]
                /\ UNCHANGED resp

\* qdrant_service.search
SearchQuery(faults) ==
    /\ srch.pc = "query"
    /\ TtlFrame
    /\ UNCHANGED cache
    /\ IF "index" \in faults
       THEN /\ resp' = [op |-> "search", status |-> "error", hit |-> FALSE,
                        body |-> <<>>, issued |-> srch.issued,
                        from |-> Len(ingested), cached_at |-> now]
            /\ srch' = NoSearch
       ELSE /\ srch' = [pc |-> "store", request |-> srch.request,
                        issued |-> srch.issued,
                        results |-> qdrant_search(index, embed_text(srch.request.query),
                                                  srch.request.top_k,
                                                  srch.request.filters),
                        from |-> Len(ingested)]
            /\ UNCHANGED resp

\* cache_service.set and the return
SearchStore(faults) ==
    /\ srch.pc = "store"
    /\ TtlFrame
    /\ cache' = cache_set(cache, CacheKey(srch.request), srch.results, TTL, now,
                          srch.from, "cache_set" \in faults)
    /\ resp' = [op |-> "search", status |-> "ok", hit |-> FALSE,
                body |-> srch.results, issued |-> srch.issued,
                from |-> srch.from, cached_at |-> now]
    /\ srch' = NoSearch

TtlRequests == [query : Queries, top_k : TopKs, filters : {None}]

TtlBegin == \E r \in TtlRequests : SearchBegin(r)
TtlQuery == \E faults \in {{}, {"index"}} : SearchQuery(faults)
TtlStore == \E faults \in {{}, {"cache_set"}} : SearchStore(faults)
TtlUpload == \E faults \in {{}, {"embed"}} : upload_document("a.txt", <<"a">>, faults)
TtlTick == now < MaxTtlTicks * TickLen /\ Pass(TickLen)

NextTTL == TtlBegin \/ TtlQuery \/ TtlStore \/ TtlUpload \/ TtlTick

SpecTTL == Init /\ [][NextTTL]_vars

-----------------------------------------------------------------------------
(* SpecApi: the stand-alone service of src/api.py, with its own Qdrant     *)
(* collection ("documents") and its own Redis client, used without         *)
(* CacheService.                                                           *)

\* [text[i:i+chunk_size] for i in range(0, len(text), chunk_size)]
ApiChunks(text) ==
    LET n == (Len(text) + ApiChunkSize - 1) \div ApiChunkSize
    IN  [k \in 1..n |->
            SubSeq(text, (k - 1) * ApiChunkSize + 1,
                   IF k * ApiChunkSize < Len(text) THEN k * ApiChunkSize ELSE Len(text))]

\* the PointStructs of an upload: a fresh uuid per chunk
ApiPoints(chunks, doc_id, filename, first_uuid) ==
    [id \in {first_uuid + i - 1 : i \in 1..Len(chunks)} |->
        [vector  |-> embed_text(chunks[id - first_uuid + 1]),
         payload |-> [text        |-> chunks[id - first_uuid + 1],
                      document_id |-> doc_id,
                      filename    |-> filename,
                      chunk_index |-> id - first_uuid]]]

ApiFrame == UNCHANGED <<chunk_size, overlap, ctext, cout, deleted, ingested, srch, startup, ups>>

\* POST /upload
api_upload_document(filename, text, faults) ==
    LET chunks == ApiChunks(text)
        doc_id == next_uuid
        points == ApiPoints(chunks, doc_id, filename, next_uuid + 1)
    IN  /\ next_uuid <= MaxUuid
        /\ ApiFrame
        /\ UNCHANGED <<cache, now>>
        /\ IF "embed" \in faults
           THEN /\ resp' = [op |-> "upload", status |-> "error", stage |-> "embed"]
                /\ UNCHANGED <<index, next_uuid>>
           ELSE /\ next_uuid' = next_uuid + Len(chunks) + 1
                /\ IF "index" \in faults
                   THEN /\ resp' = [op |-> "upload", status |-> "error",
                                    stage |-> "upsert"]
                        /\ UNCHANGED index
                   ELSE /\ index' = ClientUpsert(index, points)
                        /\ resp' = [op |-> "upload", status |-> "ok", stage |-> "done",
                                    document_id |-> doc_id, chunks |-> Len(chunks)]

\* s[:n]
Prefix(s, n) == IF Len(s) <= n THEN s ELSE SubSeq(s, 1, n)

\* SearchResult(text=r.payload["text"][:200] + "...", score, document_id)
ApiResult(idx, id, query_vector) ==
    [text        |-> Prefix(idx[id].payload.text, ApiPreviewLen) \o <<".", ".", ".">>,
     score       |-> Score(query_vector, idx[id].vector),
     document_id |-> idx[id].payload.document_id]

\* POST /search: cache.get and cache.setex are calls on the Redis client
\* inside the handler's try block
api_search(request, faults) ==
    LET cache_key == CacheKey(request)
        cached    == RedisGet(cache, cache_key, now)
        hits      == Ranked(index, DOMAIN index, embed_text(request.query),
                            request.top_k)
        search_results ==
            [i \in 1..Len(hits) |-> ApiResult(index, hits[i], embed_text(request.query))]
        base == [op |-> "search", request |-> request, cache_key |-> cache_key]
    IN  /\ ApiFrame
        /\ UNCHANGED <<index, now, next_uuid>>
        /\ IF "cache_get" \in faults
           THEN /\ resp' = [status |-> "error", body |-> <<>>, hit |-> FALSE,
                            embed_calls |-> 0, index_calls |-> 0,
                            cache_errors |-> {"cache_get"},
                            failed |-> "cache_get"] @@ base
                /\ UNCHANGED cache
           ELSE IF cached.found
           THEN /\ resp' = [status |-> "ok", body |-> JsonLoads(cached.value),
                            hit |-> TRUE, embed_calls |-> 0, index_calls |-> 0,
                            cache_errors |-> {}, failed |-> "none"] @@ base
                /\ UNCHANGED cache
           ELSE IF "embed" \in faults
           THEN /\ resp' = [status |-> "error", body |-> <<>>, hit |-> FALSE,
                            embed_calls |-> 1, index_calls |-> 0,
                            cache_errors |-> {}, failed |-> "embed"] @@ base
                /\ UNCHANGED cache
           ELSE IF "index" \in faults
           THEN /\ resp' = [status |-> "error", body |-> <<>>, hit |-> FALSE,
                            embed_calls |-> 1, index_calls |-> 1,
                            cache_errors |-> {}, failed |-> "index"] @@ base
                /\ UNCHANGED cache
           ELSE IF "cache_set" \in faults
           THEN /\ resp' = [status |-> "error", body |-> <<>>, hit |-> FALSE,
                            embed_calls |-> 1, index_calls |-> 1,
                            cache_errors |-> {"cache_set"},
                            failed |-> "cache_set"] @@ base
                /\ UNCHANGED cache
           ELSE /\ cache' = RedisSetex(cache, cache_key, TTL,
                                       JsonDumps(search_results), now, 0)
                /\ resp' = [status |-> "ok", body |-> search_results, hit |-> FALSE,
                            embed_calls |-> 1, index_calls |-> 1,
                            cache_errors |-> {}, failed |-> "none"] @@ base

ApiRequests == [query : Queries \cup {<<"b">>}, top_k : TopKs]

ApiUpload == \E f \in {"a.txt", "b.md"}, t \in {<<>>, <<"a">>, <<"b", "a">>},
                faults \in {{}, {"embed"}, {"index"}} :
                 api_upload_document(f, t, faults)
ApiSearch == \E r \in ApiRequests, faults \in FaultSets : api_search(r, faults)

NextApi == ApiUpload \/ ApiSearch \/ Tick

SpecApi == Init /\ [][NextApi]_vars

-----------------------------------------------------------------------------
(* SpecAdapter: QdrantService called directly, as a caller holding chunks  *)
(* of its own can call it.                                                 *)

AdapterChunk(id, text, embedded) ==
    [id         |-> id,
     text       |-> text,
     metadata   |-> <<<<"filename", "a.txt">>>>,
     embedding  |-> IF embedded THEN Some(embed_text(text)) ELSE None,
     start_char |-> 0,
     end_char   |-> Len(text)]

AdapterChunks ==
    {AdapterChunk(id, t, e) : id \in 1..MaxPointId, t \in {<<"a">>, <<"b">>},
                              e \in BOOLEAN}
AdapterBatches ==
    {<<>>} \cup {<<c>> : c \in AdapterChunks}
           \cup {<<c, d>> : c \in AdapterChunks, d \in AdapterChunks}
AdapterDocs == {"d1", "d2"}

AdapterFrame == UNCHANGED <<chunk_size, overlap, ctext, cout, cache, now, next_uuid,
                            deleted, ingested, srch, startup, ups>>

\* qdrant_service.upsert_chunks(chunks, document_id)
AdapterUpsert(chunks, document_id) ==
    /\ AdapterFrame
    /\ index' = upsert_chunks(index, chunks, document_id)
    /\ resp' = [op |-> "upsert", chunks |-> chunks, document_id |-> document_id,
                again |-> /\ resp.op = "upsert"
                          /\ resp.chunks = chunks
                          /\ resp.document_id = document_id,
                points_before |-> Cardinality(DOMAIN index)]

\* qdrant_service.search(query_vector, top_k, filters)
AdapterSearch(query, top_k, filters) ==
    /\ AdapterFrame
    /\ UNCHANGED index
    /\ resp' = [op |-> "query", filters |-> filters,
                body |-> qdrant_search(index, embed_text(query), top_k, filters)]

\* qdrant_service.delete_document(document_id)
AdapterDelete(document_id) ==
    /\ AdapterFrame
    /\ index' = qdrant_delete_document(index, document_id)
    /\ resp' = [op |-> "delete", document_id |-> document_id,
                before |-> index]

DirectUpsert == \E b \in AdapterBatches, d \in AdapterDocs : AdapterUpsert(b, d)
DirectSearch ==
    \E q \in Queries, k \in TopKs,
       f \in {None, Some(<<<<"filename", "a.txt">>>>), Some(<<<<"document_id", "d1">>>>)} :
        AdapterSearch(q, k, f)
DirectDelete == \E d \in AdapterDocs : AdapterDelete(d)

NextAdapter == DirectUpsert \/ DirectSearch \/ DirectDelete

SpecAdapter == Init /\ [][NextAdapter]_vars

-----------------------------------------------------------------------------
(* Claims checked under SpecApi, SpecTTL and SpecAdapter *)

\* C3: when a cache call of a search raises, and the embedding and index
\* calls do not, the search succeeds with the results of the index query.
C3_CacheErrorNotSurfaced ==
    (/\ resp.op = "search"
     /\ resp.cache_errors # {}
     /\ resp.failed \notin {"embed", "index"})
        => /\ resp.status = "ok"
           /\ ~resp.hit
           /\ resp.embed_calls = 1
           /\ resp.index_calls = 1

\* C5 as claimed: a search issued more than TTL seconds after an upsert
\* completed never returns a sequence computed from the index as it was
\* before that upsert.
C5_FreshAfterTTL ==
    (resp.op = "search" /\ resp.status = "ok") =>
        \A i \in 1..Len(ingested) :
            resp.issued > ingested[i] + TTL => resp.from >= i

\* C5 as amended: a search issued more than TTL seconds after an upsert
\* completed returns either a sequence it computed itself from the index
\* after that upsert, or a cached sequence that was written to the cache
\* after that upsert completed.
C5_CachedAfterIngestion ==
    (resp.op = "search" /\ resp.status = "ok") =>
        \A i \in 1..Len(ingested) :
            resp.issued > ingested[i] + TTL =>
                IF resp.hit THEN resp.cached_at > ingested[i] ELSE resp.from >= i

\* C5 witness: a cache hit more than TTL seconds after an upsert, serving a
\* sequence computed before that upsert
C5_Witness ==
    /\ resp.op = "search"
    /\ resp.status = "ok"
    /\ resp.hit
    /\ \E i \in 1..Len(ingested) :
          resp.issued > ingested[i] + TTL /\ resp.from < i

\* C7: upserting the same chunks for the same document a second time leaves
\* the number of points as it was after the first time.
C7_ReupsertKeepsCount ==
    (resp.op = "upsert" /\ resp.again) =>
        Cardinality(DOMAIN index) = resp.points_before

\* C7 witness: a batch of two embedded chunks with different ids was
\* upserted twice in a row
C7_Witness ==
    /\ resp.op = "upsert"
    /\ resp.again
    /\ Len(resp.chunks) = 2
    /\ resp.chunks[1].id # resp.chunks[2].id
    /\ resp.chunks[1].embedding.found
    /\ resp.chunks[2].embedding.found

\* C12: delete(documentId) removes exactly the points whose payload document
\* id equals documentId and leaves every other point as it was; with no
\* matching point the index is unchanged, so a second delete of the same
\* document changes nothing.
C12_DeleteExactlyDocument ==
    resp.op = "delete" =>
        LET hit == {i \in DOMAIN resp.before :
                       resp.before[i].payload.document_id = resp.document_id}
        IN  /\ DOMAIN index = DOMAIN resp.before \ hit
            /\ \A i \in DOMAIN index : index[i] = resp.before[i]
            /\ hit = {} => index = resp.before
            /\ qdrant_delete_document(index, resp.document_id) = index

\* C12 witness: a delete removed a point of its document and kept a point of
\* another document
C12_Witness ==
    /\ resp.op = "delete"
    /\ \E i \in DOMAIN resp.before :
          resp.before[i].payload.document_id = resp.document_id
    /\ \E i \in DOMAIN index : index[i].payload.document_id # resp.document_id

-----------------------------------------------------------------------------
(* SpecChunk: chunk_text as a function of its input *)

InitChunk ==
    /\ chunk_size \in 1..MaxChunkSize
    /\ overlap \in 0..MaxOverlap
    /\ ctext \in Texts \cup {ScenarioText}
    /\ cout = [called |-> FALSE, chunks |-> <<>>, error |-> "none"]
    /\ index = NoPoints
    /\ cache = NoEntries
    /\ now = 0
    /\ next_uuid = 1
    /\ resp = NoResponse
    /\ deleted = {}
    /\ ingested = <<>>
    /\ srch = NoSearch
    /\ startup = NoStartup
    /\ ups = NoUploads

CallChunkText ==
    /\ ~cout.called
    /\ cout' = [called |-> TRUE, chunks |-> chunk_text(ctext, chunk_size, overlap),
                error |-> "none"]
    /\ UNCHANGED <<chunk_size, overlap, ctext, index, cache, now, next_uuid,
                   resp, deleted, ingested, srch, startup, ups>>

NextChunk == CallChunkText

SpecChunk == InitChunk /\ [][NextChunk]_vars

-----------------------------------------------------------------------------
(* Claims checked under SpecChunk *)

\* C13: a chunker configured or called with overlap >= targetSize fails with
\* a ConfigurationError and produces no segment.
C13_OverlapBelowSize ==
    (cout.called /\ overlap >= chunk_size) =>
        (cout.error = "ConfigurationError" /\ cout.chunks = <<>>)

\* C14: a non-empty text shorter than targetSize gives exactly one segment,
\* whose text is the whitespace-trimmed input.
C14_ShortTextOneSegment ==
    (cout.called /\ overlap < chunk_size /\ ctext # <<>> /\ Len(ctext) < chunk_size) =>
        (Len(cout.chunks) = 1 /\ cout.chunks[1].text = Strip(ctext))

\* C17: "A\n\nB\n\nC" with targetSize = 3 and overlap = 1 gives exactly three
\* segments, each holding a single paragraph.
C17_ScenarioThreeSegments ==
    (cout.called /\ ctext = ScenarioText /\ chunk_size = 3 /\ overlap = 1) =>
        [i \in 1..Len(cout.chunks) |-> cout.chunks[i].text] = <<<<"A">>, <<"B">>, <<"C">>>>

\* the first and the last n characters of s, all of s when it is shorter
Leading(s, n) == SubSeq(s, 1, IF n < Len(s) THEN n ELSE Len(s))
Trailing(s, n) == SubSeq(s, (IF n < Len(s) THEN Len(s) - n ELSE 0) + 1, Len(s))

RECURSIVE Reassemble(_, _)
Reassemble(chunks, n) ==
    IF n = 0 THEN <<>>
    ELSE IF n = 1 THEN chunks[1].text
    ELSE LET retained == chunks[n - 1].end_char - chunks[n].start_char
         IN  Reassemble(chunks, n - 1)
                 \o SubSeq(chunks[n].text, retained + 1, Len(chunks[n].text))

\* C16: for every text and every valid (targetSize, overlap), the segments'
\* texts, overlap prefixes removed, concatenate to the original text.
C16_RoundTrip ==
    (cout.called /\ overlap < chunk_size) =>
        Reassemble(cout.chunks, Len(cout.chunks)) = ctext

\* C18: the buffer after a closed one starts with exactly the trailing
\* min(overlap, length) characters of the closed buffer, then the paragraph
\* boundary and the paragraph that overflowed; with overlap = 0 it carries
\* no character of the closed buffer.
C18_SeedIsTrailingOverlap ==
    (cout.called /\ overlap < chunk_size) =>
        \A i \in 1..(Len(cout.chunks) - 1) :
            LET closed  == cout.chunks[i].raw
                carried == IF overlap = 0 THEN <<>> ELSE Trailing(closed, overlap)
            IN  /\ Leading(cout.chunks[i + 1].raw, Len(carried) + 2)
                       = carried \o <<NL, NL>>
                /\ cout.chunks[i + 1].start_char
                       = cout.chunks[i].end_char - Len(carried)

\* C21: for every segment, the input's characters at [start_char, end_char)
\* are the segment's untrimmed buffer, so its text is that slice trimmed;
\* inputs that begin with blank lines included.
C21_OffsetsSliceInput ==
    cout.called =>
        \A i \in 1..Len(cout.chunks) :
            LET c == cout.chunks[i]
            IN  /\ c.end_char <= Len(ctext)
                /\ SubSeq(ctext, c.start_char + 1, c.end_char) = c.raw
                /\ Strip(SubSeq(ctext, c.start_char + 1, c.end_char)) = c.text

-----------------------------------------------------------------------------
(* SpecStartup: processes that initialise their collection against one Qdrant.
   _init_collection lists the collections, then creates its own when the
   list does not hold it; the two client calls are separate requests. *)

StartupFrame ==
    UNCHANGED <<chunk_size, overlap, ctext, cout, index, cache, now, next_uuid,
                resp, deleted, ingested, srch, ups>>

\* client.create_collection: the server refuses a name that already exists
\* and the client raises
CreateCollection(st, c, name) ==
    IF name \in st.collections
    THEN [st EXCEPT !.callers[c] = [pc |-> "failed", name |-> name]]
    ELSE [st EXCEPT !.collections = @ \cup {name},
                    !.created[name] = @ + 1,
                    !.callers[c] = [pc |-> "done", name |-> name]]

\* collection_names = [c.name for c in client.get_collections().collections]
ListCollections(c, name) ==
    /\ startup.callers[c].pc = "idle"
    /\ startup' = [startup EXCEPT !.callers[c] =
                      [pc |-> "listed", name |-> name,
                       collection_names |-> startup.collections]]
    /\ StartupFrame

\* if self.collection_name not in collection_names: create_collection(...)
InitCollection(c) ==
    LET me == startup.callers[c]
    IN  /\ me.pc = "listed"
        /\ startup' = IF me.name \notin me.collection_names
                      THEN CreateCollection(startup, c, me.name)
                      ELSE [startup EXCEPT !.callers[c] =
                               [pc |-> "done", name |-> me.name]]
        /\ StartupFrame

StartupList == \E c \in Callers, name \in CollectionNames : ListCollections(c, name)
StartupInit == \E c \in Callers : InitCollection(c)

NextStartup == StartupList \/ StartupInit

SpecStartup == Init /\ [][NextStartup]_vars

\* C11: concurrent callers initialising the same collection all complete
\* successfully (a create that meets an existing collection counts as
\* success) and the collection is created once.
C11_StartupTolerant ==
    /\ \A c \in Callers : startup.callers[c].pc # "failed"
    /\ \A n \in CollectionNames : startup.created[n] <= 1

-----------------------------------------------------------------------------
(* SpecUploads: POST /documents/upload served by several workers side by
   side against one Qdrant.  A worker's upload goes through the handler's
   calls in order: uuid4 and saving the file, chunk_text, embed_batch,
   upsert_chunks; the calls of different workers interleave freely. *)

WorkerFrame ==
    UNCHANGED <<chunk_size, overlap, ctext, cout, cache, now, resp, deleted,
                srch, startup>>

\* doc_id = str(uuid.uuid4()); the file is saved
UploadBegin(w, filename, text) ==
    /\ ups[w].pc = "idle"
    /\ ups' = [ups EXCEPT ![w] = [pc |-> "saved", filename |-> filename,
                                  text |-> text, doc_id |-> next_uuid]]
    /\ next_uuid' = next_uuid + 1
    /\ UNCHANGED <<index, ingested>>
    /\ WorkerFrame

\* text extraction, then chunking_service.chunk_text(text_content, metadata)
UploadChunk(w) ==
    LET me       == ups[w]
        metadata == <<<<"filename", me.filename>>,
                      <<"file_type", FileType(me.filename)>>,
                      <<"upload_date", ToString(now)>>>>
        chunks   == UploadChunks(me.text, metadata, chunk_size, overlap, next_uuid)
    IN  /\ me.pc = "saved"
        /\ IF FileType(me.filename) = "pdf"
           THEN /\ ups' = [ups EXCEPT ![w] = [pc |-> "failed", stage |-> "extract",
                                              doc_id |-> me.doc_id, chunks |-> <<>>]]
                /\ UNCHANGED next_uuid
           ELSE /\ ups' = [ups EXCEPT ![w] = [pc |-> "chunked", doc_id |-> me.doc_id,
                                              chunks |-> chunks]]
                /\ next_uuid' = next_uuid + Len(chunks)
        /\ UNCHANGED <<index, ingested>>
        /\ WorkerFrame

\* embedding_service.embed_batch(chunk_texts), assigned chunk by chunk
UploadEmbed(w, faults) ==
    LET me == ups[w]
    IN  /\ me.pc = "chunked"
        /\ ups' = [ups EXCEPT ![w] =
                      IF "embed" \in faults
                      THEN [pc |-> "failed", stage |-> "embed",
                            doc_id |-> me.doc_id, chunks |-> me.chunks]
                      ELSE [pc |-> "embedded", doc_id |-> me.doc_id,
                            chunks |-> AssignEmbeddings(me.chunks,
                                           embed_batch(ChunkTexts(me.chunks)))]]
        /\ UNCHANGED <<index, ingested, next_uuid>>
        /\ WorkerFrame

\* qdrant_service.upsert_chunks(chunks, doc_id) and the response
UploadUpsert(w, faults) ==
    LET me     == ups[w]
        points == ChunkPoints(me.chunks, me.doc_id)
    IN  /\ me.pc = "embedded"
        /\ IF DOMAIN points # {} /\ "index" \in faults
           THEN /\ ups' = [ups EXCEPT ![w] = [pc |-> "failed", stage |-> "upsert",
                                              doc_id |-> me.doc_id,
                                              chunks |-> me.chunks]]
                /\ UNCHANGED <<index, ingested>>
           ELSE /\ ups' = [ups EXCEPT ![w] = [pc |-> "done", doc_id |-> me.doc_id,
                                              chunks |-> me.chunks]]
                /\ index' = upsert_chunks(index, me.chunks, me.doc_id)
                /\ ingested' = IF DOMAIN points # {}
                               THEN Append(ingested, now) ELSE ingested
        /\ UNCHANGED next_uuid
        /\ WorkerFrame

WorkerBegin  == \E w \in Workers, f \in Filenames, t \in DocTexts : UploadBegin(w, f, t)
WorkerChunk  == \E w \in Workers : UploadChunk(w)
WorkerEmbed  == \E w \in Workers, faults \in {{}, {"embed"}} : UploadEmbed(w, faults)
WorkerUpsert == \E w \in Workers, faults \in {{}, {"index"}} : UploadUpsert(w, faults)

NextUploads == WorkerBegin \/ WorkerChunk \/ WorkerEmbed \/ WorkerUpsert

SpecUploads == Init /\ [][NextUploads]_vars

\* the point ids of a worker's upload, once it has chunks
ChunkIds(w) ==
    IF "chunks" \in DOMAIN ups[w]
    THEN {ups[w].chunks[i].id : i \in 1..Len(ups[w].chunks)}
    ELSE {}

\* C22: concurrent uploads of different documents upsert disjoint point ids,
\* and the index holds exactly the segments of the uploads that completed,
\* each with its own upload's document id, text and vector.
C22_UploadsDoNotInterfere ==
    /\ \A v, w \in Workers : v # w => ChunkIds(v) \cap ChunkIds(w) = {}
    /\ DOMAIN index = UNION {ChunkIds(w) : w \in {v \in Workers : ups[v].pc = "done"}}
    /\ \A w \in Workers : ups[w].pc = "done" =>
          \A i \in 1..Len(ups[w].chunks) :
              LET c == ups[w].chunks[i]
              IN  /\ c.id \in DOMAIN index
                  /\ index[c.id].payload.document_id = ups[w].doc_id
                  /\ index[c.id].payload.text = c.text
                  /\ index[c.id].vector = c.embedding.value

\* C22 witness: two uploads, each of two segments, both took their document
\* id before either was chunked, and both completed
C22_Witness ==
    \E v, w \in Workers :
        /\ v # w
        /\ ups[v].pc = "done" /\ ups[w].pc = "done"
        /\ Len(ups[v].chunks) = 2 /\ Len(ups[w].chunks) = 2
        /\ \A i \in ChunkIds(v) \cup ChunkIds(w) :
              ups[v].doc_id < i /\ ups[w].doc_id < i
        /\ Cardinality(DOMAIN index) = 4

====
